---- MODULE Spec2Model ----
(***************************************************************************)
(* aybabtme/taring: recursive listing of an S3 path, concurrent fetch of   *)
(* every level's keys, and archival of everything fetched (taring.go).     *)
(*                                                                         *)
(* Strings are sequences of one-character strings, so that prefixes, path  *)
(* elements and filepath.Rel are computed, not assumed.                    *)
(***************************************************************************)
EXTENDS Integers, Sequences, FiniteSets, TLC

\* At most this many objects in the bucket.
MaxKeys == 3
\* At most this many trailing entries of a listing lie beyond the returned page.
MaxDropped == 1

------------------------------------------------------------------------------
(* Strings and paths                                                        *)

Range(s) == { s[i] : i \in 1..Len(s) }

HasPrefix(s, p) == Len(p) <= Len(s) /\ SubSeq(s, 1, Len(p)) = p

DOT == <<".">>
DOTDOT == <<".", ".">>

\* strings.Split(s, "/"): the elements between separators, empty ones kept.
RECURSIVE SplitAcc(_, _, _)
SplitAcc(s, cur, acc) ==
    IF s = <<>> THEN Append(acc, cur)
    ELSE IF Head(s) = "/" THEN SplitAcc(Tail(s), <<>>, Append(acc, cur))
    ELSE SplitAcc(Tail(s), Append(cur, Head(s)), acc)

Split(s) == SplitAcc(s, <<>>, <<>>)

RECURSIVE Join(_)
Join(cs) ==
    IF cs = <<>> THEN <<>>
    ELSE IF Len(cs) = 1 THEN cs[1]
    ELSE cs[1] \o <<"/">> \o Join(Tail(cs))

\* The element loop of filepath.Clean: empty and "." elements are dropped,
\* ".." removes the element before it (or stays, on a relative path that has
\* nothing left to remove; or is dropped at the root of a rooted path).
RECURSIVE CleanAcc(_, _, _)
CleanAcc(cs, out, rooted) ==
    IF cs = <<>> THEN out
    ELSE LET c == Head(cs) IN
         IF c = <<>> \/ c = DOT THEN CleanAcc(Tail(cs), out, rooted)
         ELSE IF c = DOTDOT THEN
              IF out # <<>> /\ out[Len(out)] # DOTDOT
              THEN CleanAcc(Tail(cs), SubSeq(out, 1, Len(out) - 1), rooted)
              ELSE IF rooted THEN CleanAcc(Tail(cs), out, rooted)
              ELSE CleanAcc(Tail(cs), Append(out, DOTDOT), rooted)
         ELSE CleanAcc(Tail(cs), Append(out, c), rooted)

IsRooted(p) == p # <<>> /\ p[1] = "/"

\* filepath.Clean
Clean(p) ==
    IF p = <<>> THEN DOT
    ELSE LET out == CleanAcc(Split(p), <<>>, IsRooted(p)) IN
         IF out = <<>> THEN (IF IsRooted(p) THEN <<"/">> ELSE DOT)
         ELSE (IF IsRooted(p) THEN <<"/">> ELSE <<>>) \o Join(out)

\* The elements of a cleaned path ("." and "/" have none).
Elements(c) ==
    IF c = DOT \/ c = <<"/">> \/ c = <<>> THEN <<>>
    ELSE IF IsRooted(c) THEN Split(Tail(c))
    ELSE Split(c)

\* Number of leading elements two element lists share.
RECURSIVE CommonLen(_, _)
CommonLen(a, b) ==
    IF a = <<>> \/ b = <<>> \/ Head(a) # Head(b) THEN 0
    ELSE 1 + CommonLen(Tail(a), Tail(b))

\* filepath.Rel(basepath, targpath): both are cleaned; equal paths give ".";
\* a rooted and an unrooted path cannot be related; a base whose first
\* differing element is ".." cannot be left; otherwise one ".." per base
\* element left over, then what is left of the target.  No error is returned
\* when the target merely lies outside the base.
RelOf(basepath, targpath) ==
    LET base == Clean(basepath)
        targ == Clean(targpath)
        be   == Elements(base)
        te   == Elements(targ)
        k    == CommonLen(be, te)
        rest == SubSeq(te, k + 1, Len(te))
        ups  == [i \in 1..(Len(be) - k) |-> DOTDOT]
    IN  IF targ = base THEN [err |-> FALSE, path |-> DOT]
        ELSE IF IsRooted(base) # IsRooted(targ) THEN [err |-> TRUE, path |-> <<>>]
        ELSE IF k < Len(be) /\ be[k + 1] = DOTDOT THEN [err |-> TRUE, path |-> <<>>]
        ELSE [err |-> FALSE, path |-> Join(ups \o rest)]

------------------------------------------------------------------------------
(* The bucket                                                               *)

\* The objects a bucket may hold, in the store's (byte-wise lexicographic)
\* listing order, each with its payload.
Universe == <<
    [Key |-> <<"/", "q">>,                          Data |-> <<7>>],
    [Key |-> <<"r", "/", "/", "x">>,                Data |-> <<8, 8>>],
    [Key |-> <<"r", "/", "s", "/", "t", "/", "z">>, Data |-> <<4, 4, 4, 4>>],
    [Key |-> <<"r", "/", "s", "/", "y">>,           Data |-> <<3, 3, 3>>],
    [Key |-> <<"r", "/", "u", "/", "w">>,           Data |-> <<5, 5, 5, 5, 5>>],
    [Key |-> <<"r", "/", "x">>,                     Data |-> <<1>>],
    [Key |-> <<"r", "/", "y">>,                     Data |-> <<>>],
    [Key |-> <<"r", "x">>,                          Data |-> <<6, 6>>] >>

UniverseKeys == { Universe[i].Key : i \in 1..Len(Universe) }

\* The path of the -s3-path URL with its leading slash removed (bktPath).
Roots == { <<>>, <<"r">>, <<"r", "/">> }

\* filepath.Rel, computed once for the paths that occur: every prefix of a
\* key as the base, every key as the target.
Prefixes == UNION { { SubSeq(k, 1, n) : n \in 0..Len(k) } : k \in UniverseKeys }
RelTable == [ b \in Prefixes |-> [ k \in UniverseKeys |-> RelOf(b, k) ] ]

Rel(basepath, targpath) ==
    IF basepath \in Prefixes /\ targpath \in UniverseKeys
    THEN RelTable[basepath][targpath]
    ELSE RelOf(basepath, targpath)

\* The LastModified strings a listing may carry, and time.Parse of them.
GoodStamp == "2014-05-06T07:08:09.000Z"
BadStamp == "yesterday"
Stamps == { GoodStamp, BadStamp }


\* time.Parse(time.RFC3339Nano, s): the instant (Unix seconds), or an error.
ParseTime(s) ==
    IF s = GoodStamp THEN [err |-> FALSE, t |-> 1399360089]
    ELSE [err |-> TRUE, t |-> 0]

\* os.FileMode(os.ModePerm & 0644)
filePerms == 420

------------------------------------------------------------------------------
(* State                                                                    *)

VARIABLES
    store,      \* the keys of the bucket's objects
    root,       \* bktPath, the path prefix given on the command line
    pc,         \* where main is: walk, tarify, gzip, persist, done, failed, panic
    stack,      \* the fetchPath frames, innermost last
    ret,        \* the value a fetchPath call has just returned to its caller
    lists,      \* the listings the store has returned, in call order
    calls,      \* the fetchAll calls made so far: keys, channels, WaitGroup
    tasks,      \* the doFetch goroutines started so far, with the channel each sent on
    contents,   \* main's contents, the result of the walk
    tarw,       \* the tar writer over tarArch: entries written, position, closed
    tarifyCalls,\* how many times main has called tarify
    gzipArch,   \* the gzip buffer
    dest,       \* the file at -tar-path
    fatal       \* the error main reported through fatalf, if any

vars == << store, root, pc, stack, ret, lists, calls, tasks, contents, tarw,
           tarifyCalls, gzipArch, dest, fatal >>

\* An error value: what failed, on what, and the errors it aggregates or wraps.
Err(kind, subject, causes) == [kind |-> kind, subject |-> subject, causes |-> causes]
Nil == Err("nil", <<>>, <<>>)

NoRet == [kind |-> "none", contents |-> <<>>, err |-> Nil]
RetOk(cs) == [kind |-> "ok", contents |-> cs, err |-> Nil]
RetErr(e) == [kind |-> "err", contents |-> <<>>, err |-> e]

\* The payload the store holds for a key.
StoreData(key) == Universe[CHOOSE i \in 1..Len(Universe) : Universe[i].Key = key].Data

\* The bucket's keys in listing order.
StoreKeys == SelectSeq([i \in 1..Len(Universe) |-> Universe[i].Key],
                       LAMBDA k : k \in store)

FirstSlash(s) == CHOOSE i \in 1..Len(s) : s[i] = "/" /\ \A j \in 1..(i - 1) : s[j] # "/"

\* What a delimited listing makes of one key under a prefix: the key itself,
\* or the common prefix that ends at the first delimiter after the prefix.
ListEntry(prefix, key) ==
    LET rest == SubSeq(key, Len(prefix) + 1, Len(key)) IN
    IF "/" \in Range(rest)
    THEN [dir |-> TRUE,  name |-> SubSeq(key, 1, Len(prefix) + FirstSlash(rest))]
    ELSE [dir |-> FALSE, name |-> key]

RECURSIVE ListEntries(_, _, _)
ListEntries(keys, prefix, acc) ==
    IF keys = <<>> THEN acc
    ELSE LET k == Head(keys)
             e == ListEntry(prefix, k)
         IN  IF ~HasPrefix(k, prefix) \/ e \in Range(acc)
             THEN ListEntries(Tail(keys), prefix, acc)
             ELSE ListEntries(Tail(keys), prefix, Append(acc, e))

\* bkt.List(bktPath, "/", "", 10000): the first n entries under the prefix, as
\* keys (with the LastModified strings lm) and common prefixes.
List(bktPath, n, lm) ==
    LET all  == ListEntries(StoreKeys, bktPath, <<>>)
        page == SubSeq(all, 1, n)
        ks   == SelectSeq(page, LAMBDA e : ~e.dir)
        ds   == SelectSeq(page, LAMBDA e : e.dir)
    IN  [ Contents       |-> [i \in 1..Len(ks) |-> [Key |-> ks[i].name, LastModified |-> lm[i]]],
          CommonPrefixes |-> [i \in 1..Len(ds) |-> ds[i].name],
          IsTruncated    |-> n < Len(all) ]

\* The page sizes the store may answer with (a page holds at least one entry
\* when there is one), and the keys on such a page.
PageSizes(bktPath) ==
    LET total == Len(ListEntries(StoreKeys, bktPath, <<>>)) IN
    { n \in 0..total : total - n <= MaxDropped /\ (n = 0 => total = 0) }

PageKeys(bktPath, n) ==
    Len(SelectSeq(SubSeq(ListEntries(StoreKeys, bktPath, <<>>), 1, n), LAMBDA e : ~e.dir))

------------------------------------------------------------------------------
(* fetchPath and fetchAll                                                   *)

Top == stack[Len(stack)]
Pop(s) == SubSeq(s, 1, Len(s) - 1)
SetTop(f) == [stack EXCEPT ![Len(stack)] = f]

\* A fetchPath frame: its parameters root and bktPath, its locals, and the
\* fetchAll call of the frame that called it (0 for main's call).
Frame(r, path, parent) ==
    [ root |-> r, bktPath |-> path, pc |-> "list", contents |-> <<>>,
      folders |-> <<>>, i |-> 1, call |-> 0, parent |-> parent ]

\* A fetchAll call: its parameters base and keys, the two channels made with
\* capacity len(keys), the WaitGroup, and what it returned.
Call(base, keys, path, parent) ==
    [ base |-> base, keys |-> keys, bktPath |-> path, parent |-> parent,
      launched |-> 0, wg |-> 0,
      contentC |-> <<>>, errc |-> <<>>, closed |-> FALSE, result |-> NoRet ]

\* The process is running: neither exited (os.Exit in fatalf, or main's end)
\* nor crashed.
Alive == pc \in {"walk", "tarify", "gzip", "persist"}

Walking == pc = "walk" /\ stack # <<>>


\* S3Content
S3Content(name, lastMod, data) == [Name |-> name, LastMod |-> lastMod, Data |-> data]

\* bkt.Get(k.Key), when it succeeds.
Get(key) == StoreData(key)

\* fetchAll without its wg.Wait().
WaitReleased_NoWait(c) == TRUE

\* wg.Wait(): released when the counter is zero.
WaitReleased(c) == c.wg = 0

\* fetchAll failing only when no task succeeded.
FetchAllResult_Partial(cs, errs) ==
    IF Len(errs) # 0 /\ Len(cs) = 0 THEN RetErr(Err("errors", <<>>, errs)) ELSE RetOk(cs)

\* fetchAll treating a level without objects as an error.
FetchAllResult_EmptyFails(cs, errs) ==
    IF Len(errs) # 0 \/ Len(cs) = 0 THEN RetErr(Err("errors", <<>>, errs)) ELSE RetOk(cs)

\* fetchAll reporting only the first error it received.
FetchAllResult_FirstError(cs, errs) ==
    IF Len(errs) # 0 THEN RetErr(Err("errors", <<>>, <<errs[1]>>)) ELSE RetOk(cs)

\* The zero value of S3Content.
ZeroContent == S3Content(<<>>, 0, <<>>)

\* contents made with length, not capacity, len(contentC): the appends land
\* behind that many zero values.
FetchAllResult_MakeLen(cs, errs) ==
    IF Len(errs) # 0 THEN RetErr(Err("errors", <<>>, errs))
    ELSE RetOk([ i \in 1..Len(cs) |-> ZeroContent ] \o cs)

\* The end of fetchAll: an error when any task reported one, with their count
\* and messages, and then no contents; otherwise the contents.
FetchAllResult(cs, errs) ==
    IF Len(errs) # 0 THEN RetErr(Err("errors", <<>>, errs)) ELSE RetOk(cs)

\* fetchPath dropping fetchAll's error.
LevelFailed_Ignored(res) == FALSE

\* fetchPath's test of what fetchAll returned (err != nil).
LevelFailed(res) == res.kind = "err"

\* fetchPath dropping the error of a recursive call.
ChildFailed_Ignored(res) == FALSE

\* fetchPath's test of what a recursive call returned (err != nil).
ChildFailed(res) == res.kind = "err"

\* main dropping fetchPath's error.
WalkFailed_Ignored(res) == FALSE

\* main's test of what fetchPath returned (err != nil).
WalkFailed(res) == res.kind = "err"

\* The recursive result put in front of what was accumulated.
AppendContents_Prepend(cs, new) == new \o cs

\* contents = append(contents, newContent...)
AppendContents(cs, new) == cs \o new

\* The recursive call made relative to the folder it descends into.
RecurseRoot_Folder(f, folder) == folder

\* The root argument of the recursive call fetchPath(bkt, prfx+"\t", root, folder).
RecurseRoot(f, folder) == f.root

\* doFetch reading the loop variable after the loop has moved on.
TaskKey_Captured(c, n) == c.keys[Len(c.keys)]

\* The key a doFetch goroutine works on: the argument of the go statement.
TaskKey(c, n) == c.keys[n]

\* S3Content.TarHeader (AccessTime, Uid and Gid come from the process).
TarHeader(o) ==
    [ Name |-> o.Name, Size |-> Len(o.Data), Mode |-> filePerms,
      ModTime |-> o.LastMod, ChangeTime |-> o.LastMod, Typeflag |-> "TypeReg" ]

\* tar.NewWriter(w) at the start of tarify(w, objects).
NewTarWriter(objects) ==
    [ objects |-> objects, i |-> 1, at |-> "header", entries |-> <<>>, closed |-> FALSE ]

Absent == [state |-> "absent", bytes |-> <<>>]

Init ==
    /\ store \in { S \in SUBSET UniverseKeys : Cardinality(S) <= MaxKeys }
    /\ root \in Roots
    /\ pc = "walk"
    /\ stack = << Frame(root, root, 0) >>
    /\ ret = NoRet
    /\ lists = <<>>
    /\ calls = <<>>
    /\ tasks = <<>>
    /\ contents = <<>>
    /\ tarw = NewTarWriter(<<>>)
    /\ tarifyCalls = 0
    /\ gzipArch = <<>>
    /\ dest = Absent
    /\ fatal = Nil

\* fetchPath listing its path again when the listing was truncated.
AfterList_Again(list) == IF list.IsTruncated THEN "list" ELSE "fetchAll"

\* Where fetchPath goes after a listing without error: on to fetchAll with
\* the keys of the page, whether or not the listing was truncated.
AfterList(list) == "fetchAll"

\* fetchPath up to the fan-out: the listing call, which may fail, and the
\* start of fetchAll on the listed keys (the channels and the WaitGroup).
FetchPathList ==
    /\ Walking /\ Top.pc = "list"
    /\ \/ /\ stack' = Pop(stack)
          /\ ret' = RetErr(Err("list", Top.bktPath, <<>>))
          /\ UNCHANGED << lists, calls >>
       \/ \E n \in PageSizes(Top.bktPath) :
          \E lm \in [1..PageKeys(Top.bktPath, n) -> Stamps] :
             LET list == List(Top.bktPath, n, lm) IN
             /\ lists' = Append(lists, [bktPath |-> Top.bktPath, list |-> list])
             /\ calls' = Append(calls, Call(Top.root, list.Contents, Top.bktPath, Top.parent))
             /\ stack' = SetTop([Top EXCEPT !.pc = AfterList(list),
                                            !.folders = list.CommonPrefixes,
                                            !.call = Len(calls) + 1])
             /\ ret' = ret
    /\ UNCHANGED << store, root, pc, tasks, contents, tarw, tarifyCalls, gzipArch,
                    dest, fatal >>

\* One turn of fetchAll's loop: wg.Add(1); go doFetch(&wg, key, errc).
FetchAllLaunch ==
    LET c == calls[Top.call] IN
    /\ Walking /\ Top.pc = "fetchAll"
    /\ c.launched < Len(c.keys)
    /\ calls' = [calls EXCEPT ![Top.call] =
                    [c EXCEPT !.launched = @ + 1, !.wg = @ + 1]]
    /\ tasks' = Append(tasks, [ call |-> Top.call, n |-> c.launched + 1,
                                k |-> TaskKey(c, c.launched + 1), pc |-> "start",
                                lastMod |-> 0, relPath |-> <<>>, sent |-> "" ])
    /\ UNCHANGED << store, root, pc, stack, ret, lists, contents, tarw, tarifyCalls,
                    gzipArch, dest, fatal >>

\* The channels as stacks: a send puts its message in front of those waiting.
Emit_Stack(t, ch, v) ==
    LET c == calls[tasks[t].call] IN
    IF c.closed
    THEN /\ pc' = "panic"
         /\ tasks' = [tasks EXCEPT ![t].pc = "done", ![t].sent = "panic"]
         /\ UNCHANGED calls
    ELSE /\ Len(c[ch]) < Len(c.keys)
         /\ calls' = [calls EXCEPT ![tasks[t].call] =
                         [c EXCEPT ![ch] = <<v>> \o @, !.wg = @ - 1]]
         /\ tasks' = [tasks EXCEPT ![t].pc = "done", ![t].sent = ch]
         /\ pc' = pc

\* The channels made without a buffer: a send waits for a receiver, and
\* fetchAll receives only after wg.Wait().
Emit_Unbuffered(t, ch, v) ==
    LET c == calls[tasks[t].call] IN
    IF c.closed
    THEN /\ pc' = "panic"
         /\ tasks' = [tasks EXCEPT ![t].pc = "done", ![t].sent = "panic"]
         /\ UNCHANGED calls
    ELSE /\ Len(c[ch]) < 0
         /\ calls' = [calls EXCEPT ![tasks[t].call] =
                         [c EXCEPT ![ch] = Append(@, v), !.wg = @ - 1]]
         /\ tasks' = [tasks EXCEPT ![t].pc = "done", ![t].sent = ch]
         /\ pc' = pc

\* The end of a doFetch goroutine: one send, on the content or the error
\* channel of its call, then the deferred w.Done().  A send blocks while the
\* channel is full and crashes the process when the channel is closed.
Emit(t, ch, v) ==
    LET c == calls[tasks[t].call] IN
    IF c.closed
    THEN /\ pc' = "panic"
         /\ tasks' = [tasks EXCEPT ![t].pc = "done", ![t].sent = "panic"]
         /\ UNCHANGED calls
    ELSE /\ Len(c[ch]) < Len(c.keys)
         /\ calls' = [calls EXCEPT ![tasks[t].call] =
                         [c EXCEPT ![ch] = Append(@, v), !.wg = @ - 1]]
         /\ tasks' = [tasks EXCEPT ![t].pc = "done", ![t].sent = ch]
         /\ pc' = pc

\* doFetch up to the store call: time.Parse, then filepath.Rel.
TaskStart(t) ==
    LET tk      == tasks[t]
        lastMod == ParseTime(tk.k.LastModified)
        rel     == Rel(calls[tk.call].base, tk.k.Key)
    IN
    /\ Alive /\ tk.pc = "start"
    /\ \/ /\ lastMod.err
          /\ Emit(t, "errc", Err("time", <<tk.k.LastModified>>, <<>>))
       \/ /\ ~lastMod.err /\ rel.err
          /\ Emit(t, "errc", Err("rel", tk.k.Key, <<>>))
       \/ /\ ~lastMod.err /\ ~rel.err
          /\ tasks' = [tasks EXCEPT ![t].pc = "get", ![t].lastMod = lastMod.t,
                                    ![t].relPath = rel.path]
          /\ UNCHANGED << calls, pc >>
    /\ UNCHANGED << store, root, stack, ret, lists, contents, tarw, tarifyCalls,
                    gzipArch, dest, fatal >>

\* doFetch from the return of bkt.Get, which may have failed.
TaskFinish(t) ==
    LET tk == tasks[t] IN
    /\ Alive /\ tk.pc = "get"
    /\ \/ Emit(t, "errc", Err("get", tk.k.Key, <<>>))
       \/ Emit(t, "contentC", S3Content(tk.relPath, tk.lastMod, Get(tk.k.Key)))
    /\ UNCHANGED << store, root, stack, ret, lists, contents, tarw, tarifyCalls,
                    gzipArch, dest, fatal >>

\* fetchAll from wg.Wait() to its return, and fetchPath's test of the result.
FetchAllJoin ==
    LET c   == calls[Top.call]
        res == FetchAllResult(c.contentC, c.errc)
    IN
    /\ Walking /\ Top.pc = "fetchAll"
    /\ c.launched = Len(c.keys)
    /\ WaitReleased(c)
    /\ calls' = [calls EXCEPT ![Top.call] =
                    [c EXCEPT !.closed = TRUE, !.contentC = <<>>, !.errc = <<>>,
                              !.result = res]]
    /\ IF LevelFailed(res)
       THEN /\ stack' = Pop(stack)
            /\ ret' = RetErr(Err("fetching", Top.bktPath, <<res.err>>))
       ELSE /\ stack' = SetTop([Top EXCEPT !.pc = "folders", !.contents = res.contents])
            /\ ret' = ret
    /\ UNCHANGED << store, root, pc, lists, tasks, contents, tarw, tarifyCalls,
                    gzipArch, dest, fatal >>

\* One turn of fetchPath's loop over the folders: the recursive call.
FetchPathRecurse ==
    /\ Walking /\ Top.pc = "folders"
    /\ Top.i <= Len(Top.folders)
    /\ stack' = Append(SetTop([Top EXCEPT !.pc = "await"]),
                       Frame(RecurseRoot(Top, Top.folders[Top.i]), Top.folders[Top.i], Top.call))
    /\ UNCHANGED << store, root, pc, ret, lists, calls, tasks, contents, tarw,
                    tarifyCalls, gzipArch, dest, fatal >>

\* The recursive call has returned: return its error, or append its contents.
FetchPathResume ==
    /\ Walking /\ Top.pc = "await"
    /\ ret.kind # "none"
    /\ IF ChildFailed(ret)
       THEN /\ stack' = Pop(stack)
            /\ ret' = RetErr(ret.err)
       ELSE /\ stack' = SetTop([Top EXCEPT !.pc = "folders",
                                           !.contents = AppendContents(@, ret.contents),
                                           !.i = @ + 1])
            /\ ret' = NoRet
    /\ UNCHANGED << store, root, pc, lists, calls, tasks, contents, tarw, tarifyCalls,
                    gzipArch, dest, fatal >>

\* return contents, nil
FetchPathReturn ==
    /\ Walking /\ Top.pc = "folders"
    /\ Top.i > Len(Top.folders)
    /\ stack' = Pop(stack)
    /\ ret' = RetOk(Top.contents)
    /\ UNCHANGED << store, root, pc, lists, calls, tasks, contents, tarw, tarifyCalls,
                    gzipArch, dest, fatal >>


------------------------------------------------------------------------------
(* main, tarify, gzip and the destination                                   *)

\* main from the return of fetchPath: fatalf on an error, else the call of
\* tarify(tarArch, contents) up to its loop.
MainWalkDone ==
    /\ pc = "walk" /\ stack = <<>>
    /\ ret.kind # "none"
    /\ IF WalkFailed(ret)
       THEN /\ pc' = "failed"
            /\ fatal' = Err("couldn't fetch", root, <<ret.err>>)
            /\ UNCHANGED << contents, tarw, tarifyCalls >>
       ELSE /\ pc' = "tarify"
            /\ contents' = ret.contents
            /\ tarw' = NewTarWriter(ret.contents)
            /\ tarifyCalls' = tarifyCalls + 1
            /\ fatal' = fatal
    /\ ret' = NoRet
    /\ UNCHANGED << store, root, stack, lists, calls, tasks, gzipArch, dest >>

\* tarify going on to the next object when a header cannot be written.
TarWriteHeader_Continue ==
    LET o == tarw.objects[tarw.i] IN
    /\ pc = "tarify" /\ tarw.at = "header"
    /\ tarw.i <= Len(tarw.objects)
    /\ \/ tarw' = [tarw EXCEPT !.at = "content",
                               !.entries = Append(@, [hdr |-> TarHeader(o), data |-> <<>>])]
       \/ tarw' = [tarw EXCEPT !.i = @ + 1]
    /\ UNCHANGED << store, root, pc, stack, ret, lists, calls, tasks, contents,
                    tarifyCalls, gzipArch, dest, fatal >>

\* tarw.WriteHeader(object.TarHeader()), which may fail.
TarWriteHeader ==
    LET o == tarw.objects[tarw.i] IN
    /\ pc = "tarify" /\ tarw.at = "header"
    /\ tarw.i <= Len(tarw.objects)
    /\ \/ /\ tarw' = [tarw EXCEPT !.at = "content",
                                  !.entries = Append(@, [hdr |-> TarHeader(o), data |-> <<>>])]
          /\ UNCHANGED << pc, fatal >>
       \/ /\ pc' = "failed"
          /\ fatal' = Err("tarifying content", <<>>, <<Err("writing header", o.Name, <<>>)>>)
          /\ tarw' = tarw
    /\ UNCHANGED << store, root, stack, ret, lists, calls, tasks, contents,
                    tarifyCalls, gzipArch, dest >>

\* tarw.Write(object.Data.Bytes()), which may fail.
TarWriteContent ==
    LET o == tarw.objects[tarw.i] IN
    /\ pc = "tarify" /\ tarw.at = "content"
    /\ \/ /\ tarw' = [tarw EXCEPT !.at = "header", !.i = @ + 1,
                                  !.entries[Len(tarw.entries)].data = o.Data]
          /\ UNCHANGED << pc, fatal >>
       \/ /\ pc' = "failed"
          /\ fatal' = Err("tarifying content", <<>>, <<Err("writing content", o.Name, <<>>)>>)
          /\ tarw' = tarw
    /\ UNCHANGED << store, root, stack, ret, lists, calls, tasks, contents,
                    tarifyCalls, gzipArch, dest >>

\* tarw.Close(), which may fail, and tarify's return to main.
TarClose ==
    /\ pc = "tarify" /\ tarw.at = "header"
    /\ tarw.i > Len(tarw.objects)
    /\ \/ /\ tarw' = [tarw EXCEPT !.closed = TRUE]
          /\ pc' = "gzip"
          /\ fatal' = fatal
       \/ /\ pc' = "failed"
          /\ fatal' = Err("tarifying content", <<>>, <<Err("closing tar buffer", <<>>, <<>>)>>)
          /\ tarw' = tarw
    /\ UNCHANGED << store, root, stack, ret, lists, calls, tasks, contents,
                    tarifyCalls, gzipArch, dest >>

\* The gzip stream of a tar stream (its entries, in order), and its inverse.
GzipOf(entries) == << [gzip |-> entries] >>
Gunzip(bytes) == bytes[1].gzip

\* io.Copy(gw, tarArch) and gw.Close(), either of which may fail.
Gzip ==
    /\ pc = "gzip"
    /\ \/ /\ gzipArch' = GzipOf(tarw.entries)
          /\ pc' = "persist"
          /\ fatal' = fatal
       \/ /\ pc' = "failed"
          /\ fatal' \in { Err("writing tared objects to gzip buffer", <<>>, <<>>),
                          Err("closing gzip buffer", <<>>, <<>>) }
          /\ gzipArch' = gzipArch
    /\ UNCHANGED << store, root, stack, ret, lists, calls, tasks, contents, tarw,
                    tarifyCalls, dest >>

\* ioutil.WriteFile(*tarDst, gzipArch.Bytes(), filePerms): on failure the file
\* is as it was (it could not be opened) or holds part of the bytes.
Persist ==
    /\ pc = "persist"
    /\ \/ /\ dest' = [state |-> "written", bytes |-> gzipArch]
          /\ pc' = "done"
          /\ fatal' = fatal
       \/ /\ pc' = "failed"
          /\ fatal' = Err("writing tar/gzip buffer", <<>>, <<>>)
          /\ dest' \in { dest, [state |-> "partial", bytes |-> <<>>] }
    /\ UNCHANGED << store, root, stack, ret, lists, calls, tasks, contents, tarw,
                    tarifyCalls, gzipArch >>

Next ==
    \/ FetchPathList
    \/ FetchAllLaunch
    \/ \E t \in DOMAIN tasks : TaskStart(t)
    \/ \E t \in DOMAIN tasks : TaskFinish(t)
    \/ FetchAllJoin
    \/ FetchPathRecurse
    \/ FetchPathResume
    \/ FetchPathReturn
    \/ MainWalkDone
    \/ TarWriteHeader
    \/ TarWriteContent
    \/ TarClose
    \/ Gzip
    \/ Persist

Spec == Init /\ [][Next]_vars

\* The same with what the Go scheduler and the store give fetchAll: the loop
\* that launches the goroutines goes on, a goroutine that can run does run,
\* every bkt.Get returns, and wg.Wait() returns once the counter is zero.
FairSpec ==
    /\ Spec
    /\ WF_vars(FetchAllLaunch)
    /\ WF_vars(\E t \in DOMAIN tasks : TaskStart(t))
    /\ WF_vars(\E t \in DOMAIN tasks : TaskFinish(t))
    /\ WF_vars(FetchAllJoin)


------------------------------------------------------------------------------
(* Properties                                                               *)

TasksOf(c) == { t \in DOMAIN tasks : tasks[t].call = c }
Running(t) == tasks[t].pc # "done"
Succeeded(t) == tasks[t].sent = "contentC"
Failed(t) == tasks[t].sent = "errc"
Returned(c) == calls[c].result.kind # "none"

\* C1: level atomicity of fetchAll.  Once a fetchAll call has returned: if at
\* least one of its tasks failed, it returned an error and no object at all,
\* however many of its tasks succeeded; and if it returned without error,
\* there was a task for every key and every one of them succeeded.
C1_LevelAtomicity ==
    \A c \in DOMAIN calls :
        Returned(c) =>
            /\ (\E t \in TasksOf(c) : Failed(t)) =>
                   (calls[c].result.kind = "err" /\ calls[c].result.contents = <<>>)
            /\ calls[c].result.kind = "ok" =>
                   /\ Cardinality(TasksOf(c)) = Len(calls[c].keys)
                   /\ \A t \in TasksOf(c) : Succeeded(t)

\* A level has failed although one of its tasks succeeded.
C1_Witness ==
    \E c \in DOMAIN calls :
        /\ calls[c].result.kind = "err"
        /\ \E t \in TasksOf(c) : Succeeded(t)
        /\ \E t \in TasksOf(c) : Failed(t)

\* The object a successful task put on its content channel.
Emitted(t) == S3Content(tasks[t].relPath, tasks[t].lastMod, StoreData(tasks[t].k.Key))

\* C2: all-or-nothing output.  Once any fetch task has failed, tarify is never
\* called, the destination stays untouched, and the run is still walking
\* (with a step left to take) or has ended in fatalf with an error.  The
\* destination is touched only after the walk has returned, the archive has
\* been closed and the gzip buffer has been filled from it.  tarify is called
\* at most once, with every object any task has emitted.
C2_AllOrNothing ==
    /\ (\E t \in DOMAIN tasks : Failed(t)) =>
           /\ tarifyCalls = 0
           /\ dest = Absent
           /\ pc \in {"walk", "failed"}
           /\ pc = "walk" => ENABLED Next
           /\ pc = "failed" => fatal # Nil
    /\ dest # Absent =>
           /\ stack = <<>> /\ \A t \in DOMAIN tasks : Succeeded(t)
           /\ tarw.closed /\ tarw.i > Len(tarw.objects)
           /\ gzipArch = GzipOf(tarw.entries)
           /\ pc \in {"done", "failed"}
    /\ tarifyCalls <= 1
    /\ tarifyCalls = 1 =>
           /\ tarw.objects = contents
           /\ Len(contents) = Len(tasks)
           /\ \A t \in DOMAIN tasks : Emitted(t) \in Range(contents)

\* The run has ended in failure after a level in which one task failed and
\* another succeeded.
C2_Witness ==
    /\ pc = "failed"
    /\ \E t, u \in DOMAIN tasks : tasks[t].call = tasks[u].call /\ Failed(t) /\ Succeeded(u)
    /\ dest = Absent


\* The keys a complete walk from the root finds: every key of the bucket that
\* begins with the root prefix.
LeafKeys == { k \in store : HasPrefix(k, root) }

EntriesOf(k) ==
    { j \in DOMAIN tarw.entries : tarw.entries[j].data = StoreData(k) }

\* C3: completeness of the archive.  When the walk and the archive write have
\* succeeded, the archive holds exactly one entry per key of the bucket under
\* the root, N in all, and the size in each entry's header is the length of
\* the payload of its key.
C3_Completeness ==
    tarw.closed =>
        /\ Len(tarw.entries) = Cardinality(LeafKeys)
        /\ \A k \in LeafKeys :
               /\ Cardinality(EntriesOf(k)) = 1
               /\ \A j \in EntriesOf(k) : tarw.entries[j].hdr.Size = Len(StoreData(k))

NoneTruncated == \A i \in DOMAIN lists : ~lists[i].list.IsTruncated

\* C3, where no listing was truncated: the same statement then holds.
C3_CompleteUnlessTruncated == NoneTruncated => C3_Completeness

\* A closed archive of three entries from more than one level.
C3_Witness ==
    /\ tarw.closed /\ NoneTruncated
    /\ Len(tarw.entries) = 3 /\ Len(lists) >= 2

\* C4: full join without cancellation.  A fetchAll call that has returned has
\* started a task for every key and none of them is still running; and a task
\* that has not finished can always take its next step, whatever its siblings
\* have done, in a process that is still running.
C4_FullJoin ==
    /\ \A c \in DOMAIN calls :
           Returned(c) =>
               /\ Cardinality(TasksOf(c)) = Len(calls[c].keys)
               /\ \A t \in TasksOf(c) : ~Running(t)
    /\ \A t \in DOMAIN tasks :
           Running(t) =>
               /\ Alive
               /\ ~calls[tasks[t].call].closed
               /\ ENABLED (TaskStart(t) \/ TaskFinish(t))

\* A task is still running after a sibling has failed.
C4_Witness ==
    \E t, u \in DOMAIN tasks :
        /\ tasks[t].call = tasks[u].call
        /\ Failed(t) /\ Running(u) /\ tasks[u].pc = "get"

\* The fetchAll calls of the levels above a call's level.
RECURSIVE Ancestors(_)
Ancestors(c) ==
    IF calls[c].parent = 0 THEN {}
    ELSE {calls[c].parent} \cup Ancestors(calls[c].parent)

\* The level's join has completed successfully: every key had its task, every
\* task has finished, none failed, and fetchAll returned the contents.
LevelResolved(c) ==
    /\ calls[c].result.kind = "ok"
    /\ Cardinality(TasksOf(c)) = Len(calls[c].keys)
    /\ \A t \in TasksOf(c) : ~Running(t) /\ Succeeded(t)

\* C5: strict precedence across levels.  A fetchPath call for a child prefix
\* exists (and so can list or fetch) only when the join of its parent level
\* has completed successfully; and while a task is running, every level above
\* its own is resolved in that sense.
C5_LevelPrecedence ==
    /\ \A i \in DOMAIN stack :
           stack[i].parent # 0 => LevelResolved(stack[i].parent)
    /\ \A c \in DOMAIN calls :
           calls[c].parent # 0 => LevelResolved(calls[c].parent)
    /\ \A t \in DOMAIN tasks :
           Running(t) => \A a \in Ancestors(tasks[t].call) : LevelResolved(a)

\* A task of a child level is running, below a parent level that had tasks.
C5_Witness ==
    \E t \in DOMAIN tasks :
        /\ Running(t)
        /\ calls[tasks[t].call].parent # 0
        /\ TasksOf(calls[tasks[t].call].parent) # {}


\* The listing the store returned for a path.
ListOf(path) == lists[CHOOSE i \in DOMAIN lists : lists[i].bktPath = path].list

NameData(o) == [Name |-> o.Name, Data |-> o.Data]

\* The objects of the keys of one listing, named relative to the root.
LevelObjects(l) ==
    { [Name |-> RelOf(root, l.Contents[j].Key).path, Data |-> StoreData(l.Contents[j].Key)] :
        j \in DOMAIN l.Contents }

\* The number of keys listed at a path and below it.
RECURSIVE Total(_)
RECURSIVE TotalOf(_)
Total(path) == Len(ListOf(path).Contents) + TotalOf(ListOf(path).CommonPrefixes)
TotalOf(fs) == IF fs = <<>> THEN 0 ELSE Total(Head(fs)) + TotalOf(Tail(fs))

\* seq is a pre-order walk of the listings from path: the level's own objects
\* first, in any order, then one contiguous block per common prefix, in the
\* order the listing gave the prefixes, each block such a walk in turn.
RECURSIVE WalkOK(_, _)
RECURSIVE BlocksOK(_, _)
WalkOK(seq, path) ==
    LET l == ListOf(path)
        n == Len(l.Contents)
    IN  /\ Len(seq) = Total(path)
        /\ { NameData(seq[j]) : j \in 1..n } = LevelObjects(l)
        /\ BlocksOK(SubSeq(seq, n + 1, Len(seq)), l.CommonPrefixes)
BlocksOK(seq, fs) ==
    IF fs = <<>> THEN seq = <<>>
    ELSE LET m == Total(Head(fs)) IN
         /\ m <= Len(seq)
         /\ WalkOK(SubSeq(seq, 1, m), Head(fs))
         /\ BlocksOK(SubSeq(seq, m + 1, Len(seq)), Tail(fs))

\* C6: order of the walk's output.  What a successful walk returns to main is
\* a pre-order, depth-first walk of the listings: all leaves of a level come
\* before every leaf of its descendant levels, and the subtrees of the child
\* prefixes are contiguous blocks in the order the listing returned them.
C6_WalkOrder == tarifyCalls = 1 => WalkOK(contents, root)

\* A walk has returned a root leaf followed by the leaves of two subtrees.
C6_Witness ==
    /\ tarifyCalls = 1
    /\ Len(contents) = 3
    /\ Len(ListOf(root).Contents) = 1
    /\ Len(ListOf(root).CommonPrefixes) = 2

\* The root as a directory: without its trailing slash.
RootDir ==
    IF root # <<>> /\ root[Len(root)] = "/" THEN SubSeq(root, 1, Len(root) - 1) ELSE root

\* The key lies under the root: it is the root directory, a slash, and more.
UnderRoot(key) ==
    IF RootDir = <<>> THEN ~IsRooted(key) ELSE HasPrefix(key, RootDir \o <<"/">>)

\* The key with the root directory and its slash removed.
StripRoot(key) ==
    IF RootDir = <<>> THEN key ELSE SubSeq(key, Len(RootDir) + 2, Len(key))

PastRel(t) == tasks[t].pc = "get" \/ Succeeded(t)

\* C7: a key that does not lie under the traversal root yields a failure of
\* its task: no task gets past the relative-path computation, or emits an
\* object, for a key outside the root.
C7_OutsideRootFails ==
    \A t \in DOMAIN tasks : PastRel(t) => UnderRoot(tasks[t].k.Key)

\* C8: names are relative to the original root at every depth.  Every
\* fetchPath frame and every fetchAll call is given the original root; and
\* for a key root/p1/.../pk/leaf (a clean path under the root) found at any
\* depth, the name computed, and carried by the emitted object, is
\* p1/.../pk/leaf.
C8_NamesRelativeToRoot ==
    /\ \A i \in DOMAIN stack : stack[i].root = root
    /\ \A c \in DOMAIN calls : calls[c].base = root
    /\ \A t \in DOMAIN tasks :
           (PastRel(t) /\ UnderRoot(tasks[t].k.Key) /\ Clean(tasks[t].k.Key) = tasks[t].k.Key)
               => tasks[t].relPath = StripRoot(tasks[t].k.Key)
    /\ \A c \in DOMAIN calls : \A j \in DOMAIN calls[c].contentC :
           \E t \in TasksOf(c) : Succeeded(t) /\ calls[c].contentC[j].Name = tasks[t].relPath

\* A key two levels below the root "r/" has been fetched under the name s/t/z.
C8_Witness ==
    \E t \in DOMAIN tasks :
        /\ Succeeded(t)
        /\ root = <<"r", "/">>
        /\ Cardinality(Ancestors(tasks[t].call)) = 2
        /\ tasks[t].relPath = <<"s", "/", "t", "/", "z">>

\* C9, in every state: a failed level has made its fetchPath return the error
\* (which is on its way up, or has ended the run in fatalf); while an error is
\* on its way no task is running; and a run that ended before tarify reports
\* the walk's error and holds no objects.
C9_State ==
    /\ \A c \in DOMAIN calls :
           calls[c].result.kind = "err" =>
               LET e == Err("fetching", calls[c].bktPath, <<calls[c].result.err>>) IN
               \/ pc = "walk" /\ ret = RetErr(e)
               \/ pc = "failed" /\ fatal = Err("couldn't fetch", root, <<e>>)
    /\ ret.kind = "err" =>
           /\ ret.err.kind \in {"list", "fetching"}
           /\ ret.contents = <<>>
           /\ \A t \in DOMAIN tasks : ~Running(t)
    /\ (pc = "failed" /\ tarifyCalls = 0) =>
           /\ fatal.kind = "couldn't fetch"
           /\ contents = <<>>

\* C9, in every step taken while an error is on its way up: no listing call is
\* made, no fetchAll call and no task is started, nothing reaches main's
\* contents, the archive or the destination; the step either pops a frame,
\* passing the same error on with no objects, or is main's fatalf of it.
C9_Step ==
    ret.kind = "err" =>
        /\ lists' = lists /\ calls' = calls /\ tasks' = tasks
        /\ contents' = <<>> /\ tarifyCalls' = 0 /\ dest' = Absent
        /\ \/ /\ stack # <<>>
              /\ stack' = Pop(stack)
              /\ ret' = ret
           \/ /\ stack = <<>>
              /\ pc' = "failed"
              /\ fatal' = Err("couldn't fetch", root, <<ret.err>>)

\* C9: abort on any failure of the walk.
C9_AbortOnFailure == []C9_State /\ [][C9_Step]_vars

\* An error is on its way up through a frame that had already accumulated
\* the objects of an earlier sibling subtree.
C9_Witness ==
    /\ ret.kind = "err"
    /\ stack # <<>>
    /\ Top.pc = "await" /\ Top.i >= 2 /\ Top.contents # <<>>

\* The keys the listings of the walk returned.
ListedKeys ==
    UNION { { lists[i].list.Contents[j].Key : j \in DOMAIN lists[i].list.Contents } :
            i \in DOMAIN lists }

\* Decoding the persisted file: gunzip, then the archive's entries in order.
Decoded == Gunzip(dest.bytes)

EntryOf(k, e) ==
    /\ e.hdr.Name = RelOf(root, k).path
    /\ e.data = StoreData(k)
    /\ e.hdr.Size = Len(e.data)

\* C10: round-trip of entries.  Decoding the persisted archive gives, for
\* every key the walk listed, exactly one entry that carries the relative
\* name of that key together with the payload the store holds for that same
\* key, and gives no other entry.
C10_RoundTrip ==
    dest.state = "written" =>
        /\ Len(Decoded) = Cardinality(ListedKeys)
        /\ \A k \in ListedKeys :
               Cardinality({ j \in DOMAIN Decoded : EntryOf(k, Decoded[j]) }) = 1
        /\ \A j \in DOMAIN Decoded : \E k \in ListedKeys : EntryOf(k, Decoded[j])

\* An archive was persisted in which two keys of one level appear in the
\* order opposite to the listing's.
C10_Witness ==
    /\ dest.state = "written"
    /\ \E i \in DOMAIN lists :
           /\ Len(lists[i].list.Contents) >= 2
           /\ \E a, b \in DOMAIN Decoded :
                  /\ a < b
                  /\ EntryOf(lists[i].list.Contents[2].Key, Decoded[a])
                  /\ EntryOf(lists[i].list.Contents[1].Key, Decoded[b])

\* The listing of the root path came back with no key and no common prefix.
EmptyNamespace ==
    /\ lists # <<>>
    /\ lists[1].list.Contents = <<>>
    /\ lists[1].list.CommonPrefixes = <<>>

\* C11: empty namespace.  When the root listing holds no key and no child
\* prefix, no task is ever launched and nothing is listed again; fetchAll
\* does not block and returns no error and no object; the walk returns an
\* empty collection; tarify writes no entry and only closes the archive; the
\* run never stops short of the end, fails only if closing, compressing or
\* writing the archive fails, and what it persists is the empty archive.
C11_EmptyNamespace ==
    EmptyNamespace =>
        /\ tasks = <<>> /\ Len(lists) = 1 /\ Len(calls) = 1
        /\ calls[1].keys = <<>>
        /\ (Walking /\ Top.pc = "fetchAll") => ENABLED FetchAllJoin
        /\ Returned(1) => calls[1].result = RetOk(<<>>)
        /\ ret \in {NoRet, RetOk(<<>>)}
        /\ contents = <<>>
        /\ tarw.objects = <<>> /\ tarw.entries = <<>>
        /\ ~ (ENABLED TarWriteHeader) /\ ~ (ENABLED TarWriteContent)
        /\ pc = "tarify" => ENABLED TarClose
        /\ pc \in {"walk", "tarify", "gzip", "persist"} => ENABLED Next
        /\ pc # "panic"
        /\ pc = "failed" =>
               \/ fatal = Err("tarifying content", <<>>,
                              <<Err("closing tar buffer", <<>>, <<>>)>>)
               \/ fatal.kind \in { "writing tared objects to gzip buffer",
                                   "closing gzip buffer", "writing tar/gzip buffer" }
        /\ dest.state = "written" =>
               /\ tarw.closed
               /\ Gunzip(dest.bytes) = <<>>

\* A run over an empty namespace has written the empty archive to the
\* destination.
C11_Witness ==
    /\ EmptyNamespace
    /\ pc = "done"
    /\ tarifyCalls = 1 /\ tarw.closed
    /\ dest.state = "written" /\ Gunzip(dest.bytes) = <<>>

DistinctNames(cs) ==
    \A i, j \in DOMAIN cs : i # j => cs[i].Name # cs[j].Name

\* C12: uniqueness of names.  In a successful walk (the keys of the bucket
\* being pairwise distinct, as the keys of a set are), the names of the
\* objects in the collection handed to tarify are pairwise distinct.
C12_UniqueNames ==
    tarifyCalls = 1 => DistinctNames(contents)

\* The same for the buckets in which every listed key is a clean path
\* (filepath.Clean leaves it as it is): there the names are distinct.
C12_UniqueNamesOfCleanKeys ==
    (tarifyCalls = 1 /\ \A k \in ListedKeys : Clean(k) = k) => DistinctNames(contents)

\* What the tasks of the call have emitted on its content channel, oldest
\* first, as long as fetchAll has not drained it.
C13_Step ==
    /\ \A t \in DOMAIN tasks :
           (tasks[t].sent # "contentC" /\ tasks'[t].sent = "contentC") =>
               LET c == tasks[t].call IN
               /\ calls'[c].contentC =
                      Append(calls[c].contentC,
                             S3Content(tasks[t].relPath, tasks[t].lastMod,
                                       Get(tasks[t].k.Key)))
               /\ \A u \in DOMAIN tasks \ {t} : tasks'[u] = tasks[u]
    /\ \A c \in DOMAIN calls :
           (~Returned(c) /\ calls'[c].result.kind = "ok") =>
               calls'[c].result.contents = calls[c].contentC

\* C13: order within a level is completion order.  Each task that emits an
\* object puts it behind the objects its siblings emitted before it, one
\* task at a time, and a successful fetchAll returns the objects in exactly
\* that order, whatever the order of its input keys.
C13_CompletionOrder == [][C13_Step]_vars

\* A fetchAll call on two keys has returned their objects in the order
\* opposite to the order of the keys: the task of the second key emitted
\* first.
C13_Witness ==
    \E c \in DOMAIN calls :
        /\ Len(calls[c].keys) = 2
        /\ calls[c].result.kind = "ok"
        /\ Len(calls[c].result.contents) = 2
        /\ calls[c].result.contents[1].Data = StoreData(calls[c].keys[2].Key)
        /\ calls[c].result.contents[2].Data = StoreData(calls[c].keys[1].Key)
        /\ StoreData(calls[c].keys[1].Key) # StoreData(calls[c].keys[2].Key)

\* The same call returning them in the order of the keys.
C13_WitnessInputOrder ==
    \E c \in DOMAIN calls :
        /\ Len(calls[c].keys) = 2
        /\ calls[c].result.kind = "ok"
        /\ Len(calls[c].result.contents) = 2
        /\ calls[c].result.contents[1].Data = StoreData(calls[c].keys[1].Key)
        /\ calls[c].result.contents[2].Data = StoreData(calls[c].keys[2].Key)

\* The error a failed task reported: of time.Parse, else of filepath.Rel,
\* else of bkt.Get.
TaskError(t) ==
    LET tk == tasks[t] IN
    IF ParseTime(tk.k.LastModified).err THEN Err("time", <<tk.k.LastModified>>, <<>>)
    ELSE IF Rel(calls[tk.call].base, tk.k.Key).err THEN Err("rel", tk.k.Key, <<>>)
    ELSE Err("get", tk.k.Key, <<>>)

FailedOf(c) == { t \in TasksOf(c) : Failed(t) }

\* The sequence of messages holds the message of every task of the set, as
\* many times as tasks of the set reported it, and nothing else.
SameMessages(msgs, ts) ==
    /\ Len(msgs) = Cardinality(ts)
    /\ \A e \in Range(msgs) \cup { TaskError(t) : t \in ts } :
           Cardinality({ i \in DOMAIN msgs : msgs[i] = e }) =
               Cardinality({ t \in ts : TaskError(t) = e })

\* C14: complete failure aggregation.  When fetchAll returns an error, the
\* number of errors it reports (the length of the joined messages) is the
\* number of failed tasks of its level, and the messages are those of the
\* failed tasks, each as often as it was reported; until then its error
\* channel holds exactly the messages of the tasks that have failed so far.
C14_FailureAggregation ==
    \A c \in DOMAIN calls :
        /\ ~Returned(c) => SameMessages(calls[c].errc, FailedOf(c))
        /\ calls[c].result.kind = "err" =>
               /\ calls[c].result.err.kind = "errors"
               /\ FailedOf(c) # {}
               /\ SameMessages(calls[c].result.err.causes, FailedOf(c))

\* A fetchAll call has returned the error of a level in which two tasks
\* failed, with different messages.
C14_Witness ==
    \E c \in DOMAIN calls :
        /\ calls[c].result.kind = "err"
        /\ \E t, u \in FailedOf(c) : TaskError(t) # TaskError(u)

\* The collections of the walker: the contents variable of every fetchPath
\* activation, the value a fetchPath is returning, and main's contents.
Accumulated ==
    << [ i \in DOMAIN stack |-> stack[i].contents ], ret, contents >>

C15_Step ==
    /\ (\E t \in DOMAIN tasks : tasks'[t] # tasks[t]) => Accumulated' = Accumulated
    /\ Accumulated' # Accumulated =>
           /\ \A t \in DOMAIN tasks : ~Running(t)
           /\ tasks' = tasks

\* C15: single-owner accumulation.  No step of a fetch task changes a
\* collection of the walker, and every step that changes one (an append, a
\* return, the call of a new fetchPath) happens while no fetch task is
\* running and is not a step of a task.
C15_SingleOwner == [][C15_Step]_vars

\* Tasks of a deeper level are running while the fetchPath above them holds
\* the objects of its own level.
C15_Witness ==
    /\ \E t \in DOMAIN tasks : Running(t)
    /\ \E i \in DOMAIN stack : stack[i].contents # <<>>

\* The failure tarify returned, when main has reported one.
TarifyFailure ==
    IF pc = "failed" /\ fatal.kind = "tarifying content" THEN fatal.causes[1] ELSE Nil

C16_State ==
    LET n == Len(tarw.entries)
        m == Len(tarw.objects)
    IN
    tarifyCalls = 1 =>
        /\ tarw.objects = contents
        /\ tarw.i \in 1..(m + 1)
        /\ n = IF tarw.at = "content" THEN tarw.i ELSE tarw.i - 1
        /\ n <= m
        /\ \A j \in 1..n :
               /\ tarw.entries[j].hdr = TarHeader(tarw.objects[j])
               /\ tarw.entries[j].data =
                      IF j < tarw.i THEN tarw.objects[j].Data ELSE <<>>
        /\ tarw.closed => (tarw.at = "header" /\ n = m)
        /\ pc \in {"gzip", "persist", "done"} => tarw.closed
        /\ TarifyFailure # Nil =>
               /\ ~tarw.closed
               /\ \/ /\ tarw.at = "header" /\ tarw.i <= m
                     /\ TarifyFailure = Err("writing header", tarw.objects[tarw.i].Name, <<>>)
                  \/ /\ tarw.at = "content"
                     /\ TarifyFailure = Err("writing content", tarw.objects[tarw.i].Name, <<>>)
                  \/ /\ TarifyFailure = Err("closing tar buffer", <<>>, <<>>)
                     /\ tarw.at = "header" /\ n = m

C16_Step ==
    /\ (pc = "failed" \/ tarw.closed) => tarw' = tarw
    /\ (tarifyCalls = 1 /\ tarw'.entries # tarw.entries) =>
           LET n == Len(tarw.entries) IN
           \/ /\ tarw.at = "header"
              /\ tarw'.entries = Append(tarw.entries,
                                        [hdr |-> TarHeader(tarw.objects[n + 1]), data |-> <<>>])
           \/ /\ tarw.at = "content"
              /\ tarw'.entries = [tarw.entries EXCEPT ![n].data = tarw.objects[n].Data]
    /\ (~tarw.closed /\ tarw'.closed) =>
           /\ tarw'.entries = tarw.entries
           /\ Len(tarw.entries) = Len(tarw.objects)
           /\ tarw.at = "header"

\* C16: archive write protocol.  tarify writes the entries in the order of
\* the objects it was given, for each its header and then its payload; the
\* first header or payload write that fails ends the writing there, with no
\* later entry written and the archive not closed, and the error names the
\* object of that entry; the archive is closed once, after every entry has
\* been written in full, and nothing is written to it afterwards.
C16_WriteProtocol == []C16_State /\ [][C16_Step]_vars

\* tarify has failed writing the payload of its second object, after a
\* first entry written in full.
C16_Witness ==
    /\ tarifyCalls = 1
    /\ Len(tarw.objects) >= 3
    /\ tarw.i = 2 /\ tarw.at = "content"
    /\ TarifyFailure = Err("writing content", tarw.objects[2].Name, <<>>)
    /\ tarw.entries[1].data = tarw.objects[1].Data

\* The error the walk failed with, if it has: what a fetchPath is returning,
\* or what main reported.
WalkError ==
    IF ret.kind = "err" THEN ret.err
    ELSE IF pc = "failed" /\ fatal.kind = "couldn't fetch" THEN fatal.causes[1]
    ELSE Nil

Truncated == \E i \in DOMAIN lists : lists[i].list.IsTruncated

DoneOf(c) == { t \in TasksOf(c) : ~Running(t) }

\* A fetchAll call has been made and has not returned.
PendingCall == \E c \in DOMAIN calls : ~Returned(c)

AnyRunning == \E t \in DOMAIN tasks : Running(t)

C18_State ==
    /\ pc # "panic"
    /\ \A t \in DOMAIN tasks : ~Running(t) => tasks[t].sent \in {"contentC", "errc"}
    /\ \A c \in DOMAIN calls :
           /\ Cardinality(TasksOf(c)) = calls[c].launched
           /\ calls[c].launched <= Len(calls[c].keys)
           /\ calls[c].wg = calls[c].launched - Cardinality(DoneOf(c))
           /\ ~Returned(c) =>
                  /\ ~calls[c].closed
                  /\ Len(calls[c].contentC) + Len(calls[c].errc) = Cardinality(DoneOf(c))
                  /\ \A t \in TasksOf(c) :
                         Running(t) =>
                             /\ Len(calls[c].contentC) < Len(calls[c].keys)
                             /\ Len(calls[c].errc) < Len(calls[c].keys)
           /\ Returned(c) => DoneOf(c) = TasksOf(c)

\* C18: deadlock freedom and termination of fetchAll.  A task that is done
\* has sent one message, on one of the two channels; while a task of a call
\* is running both channels of the call have room, so its send does not
\* block, and the channels are not closed under it; and when every goroutine
\* that can run does run and every bkt.Get returns, the running tasks all
\* come to their end and every fetchAll call that was made returns, whatever
\* the number of its keys and the interleaving.
C18_Termination ==
    /\ []C18_State
    /\ AnyRunning ~> ~AnyRunning
    /\ PendingCall ~> ~PendingCall

\* A fetchAll call on no key and a fetchAll call on two keys have both
\* returned.
C18_Witness ==
    /\ \E c \in DOMAIN calls : Returned(c) /\ calls[c].keys = <<>>
    /\ \E c \in DOMAIN calls :
           Returned(c) /\ Len(calls[c].keys) = 2 /\ Cardinality(DoneOf(c)) = 2

\* The task of the n-th key of the call, when there is exactly one.
TaskOfKey(c, n) == { t \in TasksOf(c) : tasks[t].n = n }

\* wg.Wait() of the call can return or has returned, and the channels have
\* not been drained.
JoinReleased(c) ==
    /\ calls[c].launched = Len(calls[c].keys)
    /\ calls[c].wg = 0
    /\ ~Returned(c)

\* C19: conservation at the join.  When the join of a fetchAll call is
\* released, the objects on its content channel and the errors on its error
\* channel are together as many as its input keys, and every key has one
\* task, for that key, which emitted its object or reported its error, each
\* on the channel and no other message being there; and a fetchAll that
\* returned without error returned one object per input key, that key's.
C19_Conservation ==
    \A c \in DOMAIN calls :
        LET keys == calls[c].keys IN
        /\ JoinReleased(c) =>
               /\ Len(calls[c].contentC) + Len(calls[c].errc) = Len(keys)
               /\ \A n \in DOMAIN keys :
                      /\ Cardinality(TaskOfKey(c, n)) = 1
                      /\ \A t \in TaskOfKey(c, n) :
                             /\ tasks[t].k = keys[n]
                             /\ \/ Succeeded(t) /\ Emitted(t) \in Range(calls[c].contentC)
                                \/ Failed(t) /\ TaskError(t) \in Range(calls[c].errc)
               /\ Len(calls[c].contentC) = Cardinality({ t \in TasksOf(c) : Succeeded(t) })
               /\ Len(calls[c].errc) = Cardinality(FailedOf(c))
        /\ calls[c].result.kind = "ok" =>
               /\ Len(calls[c].result.contents) = Len(keys)
               /\ \A n \in DOMAIN keys :
                      Cardinality({ i \in DOMAIN calls[c].result.contents :
                                      calls[c].result.contents[i] =
                                          S3Content(Rel(calls[c].base, keys[n].Key).path,
                                                    ParseTime(keys[n].LastModified).t,
                                                    Get(keys[n].Key)) }) = 1

\* The join of a call on two keys is released with one object and one error
\* on its channels.
C19_Witness ==
    \E c \in DOMAIN calls :
        /\ JoinReleased(c)
        /\ Len(calls[c].keys) = 2
        /\ Len(calls[c].contentC) = 1 /\ Len(calls[c].errc) = 1

\* C20: one level in flight.  The running tasks all belong to one fetchAll
\* call, the one the innermost fetchPath is waiting in; only the call made
\* last can be unreturned; a fetchPath about to list finds no task running
\* and no fetchAll pending; and the activations of fetchPath form one chain,
\* each awaiting the one above it, so that of two subtrees under the same
\* parent the first has returned, with all its tasks done, before the second
\* is listed.
C20_OneLevelInFlight ==
    /\ \A t \in DOMAIN tasks :
           Running(t) =>
               /\ Walking /\ Top.pc = "fetchAll" /\ Top.call = tasks[t].call
               /\ \A u \in DOMAIN tasks : Running(u) => tasks[u].call = tasks[t].call
    /\ \A c \in DOMAIN calls :
           ~Returned(c) => (c = Len(calls) /\ Walking /\ Top.pc = "fetchAll" /\ Top.call = c)
    /\ (Walking /\ Top.pc = "list") => (~AnyRunning /\ ~PendingCall)
    /\ \A i \in DOMAIN stack :
           i > 1 => (stack[i - 1].pc = "await" /\ stack[i].parent = stack[i - 1].call)
    /\ \A c, d \in DOMAIN calls :
           (c < d /\ calls[c].parent = calls[d].parent) =>
               /\ Returned(c)
               /\ \A e \in DOMAIN calls :
                      (c \in Ancestors(e) \cup {e}) =>
                          (e < d /\ Returned(e) /\ \A t \in TasksOf(e) : ~Running(t))

\* A task of the second subtree under a parent is running, after the
\* fetchAll of the first subtree under that parent has returned its object.
C20_Witness ==
    \E t \in DOMAIN tasks :
        /\ Running(t)
        /\ \E c \in DOMAIN calls :
               /\ c < tasks[t].call
               /\ calls[c].parent = calls[tasks[t].call].parent
               /\ calls[c].parent # 0
               /\ calls[c].result.kind = "ok" /\ calls[c].result.contents # <<>>

====
